---------------------------- MODULE Spec2Model ----------------------------
(***************************************************************************)
(* A model of cmd/start.go of AzureHound: the polling loop of start(), the *)
(* selection/execution goroutine it dispatches on a tick, and ingest(),    *)
(* the upload of the batches of one job with its retry loop.               *)
(*                                                                         *)
(* Four specifications share the module.  SpecIngest runs one call of      *)
(* ingest() statement by statement.  Spec runs start(): the tick loop and  *)
(* the goroutines, where a call of ingest() is one step whose result is    *)
(* any result the statement-level model of ingest() can return.            *)
(* SpecSignals is Spec with diagnostic signals sent to the process.        *)
(* SpecBatch runs the batching stage between the producer and ingest().    *)
(***************************************************************************)
EXTENDS Integers, Sequences, FiniteSets

(***************************************************************************)
(* Bounds of the model.                                                    *)
(***************************************************************************)
\* Batches the pipeline can deliver to one call of ingest().
MaxBatches == 2

(***************************************************************************)
(* Program constants.                                                      *)
(***************************************************************************)
\* start.go:178  maxRetries = 3
maxRetries == 3
\* start.go:203  math.Pow(5, ...)
backoffBase == 5
\* start.go:210  http.StatusAccepted
StatusAccepted == 202
\* start.go:202  http.StatusServiceUnavailable
StatusServiceUnavailable == 503
\* start.go:202  http.StatusGatewayTimeout
StatusGatewayTimeout == 504

\* Tasks the control plane lists at once, and their ids.
MaxTasks == 2
\* Instants of the clock: execution times and time.Now() lie in 0..MaxTime.
MaxTime == 1
\* Goroutines of line 108 alive at once.
MaxGoroutines == 2
\* Bursts of records the producer emits before its stream ends.
MaxBursts == 2
\* Records in the largest burst of the producer.
MaxBurst == 600
\* Diagnostic signals delivered to the process.
MaxSignals == 2

\* start.go:144  pipeline.Batch(ctx.Done(), stream, 256, 10*time.Second)
maxItems == 256

VARIABLES
    ctxDone,      \* the shared context is cancelled (ctx.Done() is closed)
    currentTask,  \* start.go:96, shared by the loop and every goroutine
    loopPc,       \* where the loop of start() is
    tickPending,  \* ticker.C holds a tick (the channel has room for one)
    crashed,      \* a nil dereference has panicked: the process is gone
    gs,           \* the goroutines of line 108: position and locals of each
    ig,           \* the call of ingest(): its position and its locals
    log,          \* what ingest() did for the batch at hand, in order
    prior,        \* what became of the batches before the one at hand
    aborted,      \* NewRequest failed, Do failed, or a status was unexpected
    cancelledAt,  \* seconds the backoff timer had left when ctx was cancelled
    abandoned,    \* a startTask has failed and no goroutine was started since
    bt,           \* the batching stage of line 144: its buffer and its output
    sigDelivered, \* diagnostic signals the process has received
    dumps         \* stack dumps the goroutine of lines 72-78 has printed

Goroutines == 1..MaxGoroutines
TaskIds == 1..MaxTasks
Times == 0..MaxTime

\* models.ClientTask, the fields start() reads.
Tasks == [Id : TaskIds, ExectionTime : Times]

\* The nil of currentTask (no task has id 0).
nil == [Id |-> 0, ExectionTime |-> 0]

\* models.JobStatusComplete
JobStatusComplete == "Complete"

\* A goroutine slot: pc is "none" (no goroutine), "fetch" (in
\* getAvailableTasks, 110), "start" (before line 134), "starting" (in
\* startTask), "ingest" (in lines 140-145), "end" (before line 155),
\* "ending" (in endTask), "logdone" (before line 158), "clear" (before line
\* 161); sent is the id handed to startTask; hasIngestErr the local of line
\* 145; endReq the body handed to endTask; eligible records, for the
\* properties, the ids of the due tasks of least execution time in the list
\* the goroutine fetched.  A field goes back to its initial value after its
\* last use.
NoRequest == [Status |-> "", Message |-> ""]
NoGoroutine ==
    [pc |-> "none", sent |-> 0, hasIngestErr |-> FALSE, endReq |-> NoRequest,
     eligible |-> {}]

ingestVars == <<ig, log, prior, aborted, cancelledAt>>
schedVars == <<currentTask, loopPc, tickPending, crashed, gs, abandoned>>
batchVars == <<bt>>
sigVars == <<sigDelivered, dumps>>

\* The state of the batching stage before its first record.
BatchStart ==
    [pc |-> "open", buf |-> <<>>, out |-> <<>>, produced |-> 0, bursts |-> 0,
     timeFlushes |-> 0]

(***************************************************************************)
(* ingest(), start.go:173-222.                                             *)
(*                                                                         *)
(* The state of a call is a record:                                        *)
(*   pc        "range" at the for-range of line 182, "req" before          *)
(*             NewRequest (193), "do" before bheClient.Do (199), "sleep"   *)
(*             inside time.Sleep (204), "ret" returned                     *)
(*   left      batches the pipeline has still to deliver                   *)
(*   batch     batches received so far (the number of the batch at hand)   *)
(*   retry     the retry counter of line 197                               *)
(*   hasErrors the flag of line 177                                        *)
(*   sleepLeft seconds left on the timer of time.Sleep                     *)
(*   ret       the value returned (read only when pc = "ret")              *)
(***************************************************************************)

\* What bheClient.Do answers: a transport error, or a response with a status.
Responses ==
    {[err |-> TRUE, StatusCode |-> 0]} \cup
    {[err |-> FALSE, StatusCode |-> c] :
        c \in {200, StatusAccepted, 500, StatusServiceUnavailable, StatusGatewayTimeout}}

\* start.go:202
IsTransient(r) ==
    r.StatusCode = StatusGatewayTimeout \/ r.StatusCode = StatusServiceUnavailable

\* start.go:173-180: the locals of a call handed a channel with n batches to come.
IngestStart(n) ==
    [pc |-> "range", left |-> n, batch |-> 0, retry |-> 0,
     hasErrors |-> FALSE, sleepLeft |-> 0, ret |-> FALSE]

\* start.go:195, 201, 216: return true.
ReturnTrue(s) == [s EXCEPT !.pc = "ret", !.ret = TRUE]

\* start.go:221: return hasErrors.
ReturnHasErrors(s) == [s EXCEPT !.pc = "ret", !.ret = s.hasErrors]

\* pipeline.OrDone(ctx.Done(), in) closes its channel when `in` is closed and
\* drained or when ctx is cancelled.
OrDoneClosed(left, done) == left = 0 \/ done

\* rest.NewRequest(ctx, ...) binds the request to ctx: once ctx is cancelled
\* bheClient.Do fails with the context's error.
DoAnswers(done) ==
    IF done THEN {r \in Responses : r.err} ELSE Responses

\* start.go:182: the range receives the next batch.
Recv(s) == [s EXCEPT !.pc = "req", !.left = @ - 1, !.batch = @ + 1]

\* start.go:193-197: NewRequest; on success the retry loop starts at retry = 0.
NewRequest(s, ok) ==
    IF ok THEN [s EXCEPT !.pc = "do", !.retry = 0] ELSE ReturnTrue(s)

\* start.go:197: retry++ and the loop test; past the last retry the range goes on.
NextRetry(s) ==
    IF s.retry + 1 < maxRetries
    THEN [s EXCEPT !.pc = "do", !.retry = @ + 1]
    ELSE [s EXCEPT !.pc = "range", !.retry = @ + 1]

\* start.go:203: backoff := math.Pow(5, float64(retry+1)), in seconds.
Backoff(retry) == backoffBase ^ (retry + 1)

\* Do with an unexpected status logged and the loop going on instead of
\* returning.
DoIgnoresStatus(s, r) ==
    IF r.err THEN ReturnTrue(s)
    ELSE IF IsTransient(r)
         THEN [s EXCEPT !.pc = "sleep", !.sleepLeft = Backoff(s.retry)]
    ELSE NextRetry(s)

\* start.go:199-217: one bheClient.Do(req) and the branch taken on its answer.
\* An accepted answer matches no branch: the body ends and the for statement
\* goes to retry++.
Do(s, r) ==
    IF r.err THEN ReturnTrue(s)
    ELSE IF IsTransient(r)
         THEN [s EXCEPT !.pc = "sleep", !.sleepLeft = Backoff(s.retry)]
    ELSE IF r.StatusCode # StatusAccepted THEN ReturnTrue(s)
    ELSE NextRetry(s)

\* start.go:204: the timer of time.Sleep runs out.  time.Sleep takes no
\* context: nothing else ends it.
TimerExpires(s) == [s EXCEPT !.sleepLeft = 0]

\* start.go:205: the retry that was slept after is the last one.
IsLastRetry(s) == s.retry = maxRetries - 1

\* Wake with the assignment of line 207 left out.
WakeNoFlag(s) == NextRetry(s)

\* Wake with the exhausted batch ending the job.
WakeAbortsJob(s) ==
    IF IsLastRetry(s) THEN ReturnTrue([s EXCEPT !.hasErrors = TRUE])
    ELSE NextRetry(s)

\* start.go:205-209: time.Sleep has returned; the last retry sets hasErrors;
\* continue.
Wake(s) ==
    NextRetry([s EXCEPT !.hasErrors = IF IsLastRetry(s) THEN TRUE ELSE @])

(***************************************************************************)
(* ingest() as one call: every value a call can return.                    *)
(***************************************************************************)
\* The statements a call at s can take next, ctx being cancelled or not.
IngestSteps(s, done) ==
    IF s.pc = "range"
    THEN (IF s.left > 0 THEN {Recv(s)} ELSE {}) \cup
         (IF OrDoneClosed(s.left, done) THEN {ReturnHasErrors(s)} ELSE {})
    ELSE IF s.pc = "req" THEN {NewRequest(s, ok) : ok \in BOOLEAN}
    ELSE IF s.pc = "do" THEN {Do(s, r) : r \in DoAnswers(done)}
    ELSE IF s.pc = "sleep"
         THEN (IF s.sleepLeft > 0 THEN {TimerExpires(s)} ELSE {Wake(s)})
    ELSE {}

\* One step of a call paired with the context: a statement of the call, or the
\* cancellation of the context when the run allows one.
CallSteps(x, cancellable) ==
    {<<s, x[2]>> : s \in IngestSteps(x[1], x[2])} \cup
    (IF cancellable /\ ~x[2] THEN {<<x[1], TRUE>>} ELSE {})

RECURSIVE CallReach(_, _)
CallReach(S, cancellable) ==
    LET T == S \cup UNION {CallSteps(x, cancellable) : x \in S}
    IN  IF T = S THEN S ELSE CallReach(T, cancellable)

\* start.go:145: the values ingest() can return, by whether ctx is cancelled
\* when it returns (a cancellation may come at any point of the call, also
\* before its first statement).
IngestResults ==
    [done \in BOOLEAN |->
        {x[1].ret : x \in {y \in CallReach({<<IngestStart(n), FALSE>> : n \in 0..MaxBatches}, done) :
                              y[1].pc = "ret" /\ y[2] = done}}]

(***************************************************************************)
(* What is recorded of a run of ingest(), for the properties below.        *)
(***************************************************************************)
PostEvent(r) == [e |-> "post", err |-> r.err, v |-> r.StatusCode]
SleepEvent(secs) == [e |-> "sleep", err |-> FALSE, v |-> secs]
DegradedEvent == [e |-> "degraded", err |-> FALSE, v |-> 0]

IsPost(ev) == ev.e = "post"
Posts(l) == SelectSeq(l, IsPost)
IsTransientPost(ev) ==
    IsPost(ev) /\ ~ev.err /\ ev.v \in {StatusServiceUnavailable, StatusGatewayTimeout}
IsAcceptedPost(ev) == IsPost(ev) /\ ~ev.err /\ ev.v = StatusAccepted
IsAbortPost(ev) == IsPost(ev) /\ ~IsTransientPost(ev) /\ ~IsAcceptedPost(ev)

\* The batch's last allowed attempt was made and answered 503 or 504.
LogExhausted(l) ==
    Len(Posts(l)) >= maxRetries /\ IsTransientPost(Posts(l)[maxRetries])
\* Some attempt of the batch was answered 202.
LogAccepted(l) == \E i \in 1..Len(l) : IsAcceptedPost(l[i])
\* Every attempt allowed for the batch was made and answered 503 or 504.
LogAllTransient(l) ==
    /\ Len(Posts(l)) = maxRetries
    /\ \A i \in 1..maxRetries : IsTransientPost(Posts(l)[i])

Fold(p, l, n) ==
    IF n = 0 THEN p
    ELSE [exhausted |-> p.exhausted \/ LogExhausted(l),
          accepted |-> p.accepted /\ LogAccepted(l)]

AnyExhausted == Fold(prior, log, ig.batch).exhausted
AllAccepted == Fold(prior, log, ig.batch).accepted

(***************************************************************************)
(* SpecIngest: one call of ingest().                                       *)
(***************************************************************************)
InitIngest ==
    /\ ctxDone = FALSE
    /\ ig \in {IngestStart(n) : n \in 0..MaxBatches}
    /\ log = <<>>
    /\ prior = [exhausted |-> FALSE, accepted |-> TRUE]
    /\ aborted = FALSE
    /\ cancelledAt = 0
    /\ currentTask = nil
    /\ loopPc = "select"
    /\ tickPending = FALSE
    /\ crashed = FALSE
    /\ gs = [g \in Goroutines |-> NoGoroutine]
    /\ abandoned = FALSE
    /\ bt = BatchStart
    /\ sigDelivered = 0
    /\ dumps = 0

\* A termination signal cancels the context (start.go:70).
IngestCancel ==
    /\ ~ctxDone
    /\ ctxDone' = TRUE
    /\ cancelledAt' = IF ig.pc = "sleep" THEN ig.sleepLeft ELSE 0
    /\ UNCHANGED <<ig, log, prior, aborted, schedVars, batchVars, sigVars>>

IngestRecv ==
    /\ ig.pc = "range"
    /\ ig.left > 0
    /\ ig' = Recv(ig)
    /\ prior' = Fold(prior, log, ig.batch)
    /\ log' = <<>>
    /\ UNCHANGED <<ctxDone, aborted, cancelledAt, schedVars, batchVars, sigVars>>

IngestClosed ==
    /\ ig.pc = "range"
    /\ OrDoneClosed(ig.left, ctxDone)
    /\ ig' = ReturnHasErrors(ig)
    /\ UNCHANGED <<ctxDone, log, prior, aborted, cancelledAt, schedVars, batchVars, sigVars>>

IngestNewRequest ==
    /\ ig.pc = "req"
    /\ \E ok \in BOOLEAN :
        /\ ig' = NewRequest(ig, ok)
        /\ aborted' = (aborted \/ ~ok)
    /\ UNCHANGED <<ctxDone, log, prior, cancelledAt, schedVars, batchVars, sigVars>>

IngestDo ==
    /\ ig.pc = "do"
    /\ \E r \in DoAnswers(ctxDone) :
        /\ ig' = Do(ig, r)
        /\ log' = log \o <<PostEvent(r)>> \o
                  (IF ig'.pc = "sleep" THEN <<SleepEvent(ig'.sleepLeft)>> ELSE <<>>)
        /\ aborted' = (aborted \/ IsAbortPost(PostEvent(r)))
    /\ UNCHANGED <<ctxDone, prior, cancelledAt, schedVars, batchVars, sigVars>>

IngestTimerExpires ==
    /\ ig.pc = "sleep"
    /\ ig.sleepLeft > 0
    /\ ig' = TimerExpires(ig)
    /\ UNCHANGED <<ctxDone, log, prior, aborted, cancelledAt, schedVars, batchVars, sigVars>>

IngestWake ==
    /\ ig.pc = "sleep"
    /\ ig.sleepLeft = 0
    /\ ig' = Wake(ig)
    /\ log' = log \o (IF IsLastRetry(ig) THEN <<DegradedEvent>> ELSE <<>>)
    /\ cancelledAt' = 0
    /\ UNCHANGED <<ctxDone, prior, aborted, schedVars, batchVars, sigVars>>

NextIngest ==
    \/ IngestCancel
    \/ IngestRecv
    \/ IngestClosed
    \/ IngestNewRequest
    \/ IngestDo
    \/ IngestTimerExpires
    \/ IngestWake

vars == <<ctxDone, currentTask, loopPc, tickPending, crashed, gs,
          ig, log, prior, aborted, cancelledAt, abandoned, bt, sigDelivered,
          dumps>>

SpecIngest == InitIngest /\ [][NextIngest]_vars

(***************************************************************************)
(* start(), start.go:69-171: the loop and the goroutines of line 108.      *)
(*                                                                         *)
(* currentTask is read and written by the loop and by every goroutine with *)
(* no synchronisation.  Each read and each write of it is a step of its    *)
(* own, so that every order of the racing accesses is a behaviour.         *)
(***************************************************************************)

\* A request built by rest.NewRequest(ctx, ...) and sent through do() fails
\* once ctx is cancelled; otherwise the control plane answers 2xx or not.
CallOutcomes(done) == IF done THEN {FALSE} ELSE BOOLEAN

\* What getAvailableTasks can decode: up to MaxTasks tasks of distinct ids.
AvailLists ==
    {l \in UNION {[1..n -> Tasks] : n \in 0..MaxTasks} :
        \A i \in 1..Len(l) : \A j \in 1..Len(l) : l[i].Id = l[j].Id => i = j}

\* start.go:118: task.ExectionTime.Before(now) || task.ExectionTime.Equal(now)
IsDue(task, now) == task.ExectionTime < now \/ task.ExectionTime = now

\* start.go:115-121: the tasks that have reached their execution time, in
\* the order of the list.
Executable(availableTasks, now) ==
    LET due(task) == IsDue(task, now) IN SelectSeq(availableTasks, due)

\* start.go:125: the less function of the sort.
Less(a, b) == a.ExectionTime < b.ExectionTime

\* start.go:124-126: sort.Slice is not stable: it may leave the slice in any
\* order of its elements in which none is Less than one before it.
SortSlice(tasks) ==
    LET n == Len(tasks)
        perms == {p \in [1..n -> 1..n] : \A i \in 1..n : \E j \in 1..n : p[j] = i}
    IN  {s \in {[i \in 1..n |-> tasks[p[i]]] : p \in perms} :
            \A i \in 1..n : \A j \in 1..n : i < j => ~Less(s[j], s[i])}

\* start.go:150-154 with the flag ignored.
EndMessageAlwaysSuccess(hasIngestErr) == "Collection completed successfully"

\* start.go:150-154
EndMessage(hasIngestErr) ==
    IF hasIngestErr THEN "Collection completed with errors during ingest"
    ELSE "Collection completed successfully"

\* start.go:155: the body endTask sends (288-294).
EndRequest(hasIngestErr) ==
    [Status |-> JobStatusComplete, Message |-> EndMessage(hasIngestErr)]

\* The ids of the due tasks of least execution time in a fetched list.
MinDueIds(availableTasks, now) ==
    LET due == {availableTasks[i] : i \in
                   {k \in 1..Len(availableTasks) : availableTasks[k].ExectionTime <= now}}
    IN  {t.Id : t \in {u \in due : \A w \in due : u.ExectionTime <= w.ExectionTime}}

\* The process runs: no panic has ended it and main has not returned.
Alive == ~crashed /\ loopPc # "gone"

InitSched ==
    /\ ctxDone = FALSE
    /\ currentTask = nil
    /\ loopPc = "select"
    /\ tickPending = FALSE
    /\ crashed = FALSE
    /\ gs = [g \in Goroutines |-> NoGoroutine]
    /\ abandoned = FALSE
    /\ bt = BatchStart
    /\ sigDelivered = 0
    /\ dumps = 0
    /\ ig = IngestStart(0)
    /\ log = <<>>
    /\ prior = [exhausted |-> FALSE, accepted |-> TRUE]
    /\ aborted = FALSE
    /\ cancelledAt = 0

\* start.go:70: a termination signal cancels the context.
Cancel ==
    /\ Alive
    /\ ~ctxDone
    /\ ctxDone' = TRUE
    /\ UNCHANGED <<schedVars, ingestVars, batchVars, sigVars>>

\* start.go:92: the ticker fires; ticker.C keeps one tick and drops the rest.
Tick ==
    /\ Alive
    /\ loopPc # "exited"
    /\ ~tickPending
    /\ tickPending' = TRUE
    /\ UNCHANGED <<ctxDone, currentTask, loopPc, crashed, gs, abandoned, ingestVars, batchVars, sigVars>>

\* start.go:101-102, 107-108: the loop takes the tick and reads currentTask;
\* nil: it starts a goroutine (in the first free slot of the model).
LoopTickIdle ==
    /\ Alive
    /\ loopPc = "select"
    /\ tickPending
    /\ currentTask = nil
    /\ \E g \in Goroutines :
        /\ gs[g].pc = "none"
        /\ \A h \in Goroutines : h < g => gs[h].pc # "none"
        /\ gs' = [gs EXCEPT ![g].pc = "fetch"]
    /\ tickPending' = FALSE
    /\ abandoned' = FALSE
    /\ UNCHANGED <<ctxDone, currentTask, loopPc, crashed, ingestVars, batchVars, sigVars>>

\* start.go:101-102: the loop takes the tick and reads currentTask; not nil.
LoopTickBusy ==
    /\ Alive
    /\ loopPc = "select"
    /\ tickPending
    /\ currentTask # nil
    /\ tickPending' = FALSE
    /\ loopPc' = "log"
    /\ UNCHANGED <<ctxDone, currentTask, crashed, gs, abandoned, ingestVars, batchVars, sigVars>>

\* start.go:103-104: the loop reads currentTask.Id (a panic when a goroutine
\* has set it to nil since line 102) and calls checkin.
LoopCheckin ==
    /\ Alive
    /\ loopPc = "log"
    /\ IF currentTask = nil
       THEN crashed' = TRUE /\ UNCHANGED loopPc
       ELSE loopPc' = "checkin" /\ UNCHANGED crashed
    /\ UNCHANGED <<ctxDone, currentTask, tickPending, gs, abandoned, ingestVars, batchVars, sigVars>>

\* start.go:104-106: checkin returns; its error is logged and dropped.
LoopCheckinReturn ==
    /\ Alive
    /\ loopPc = "checkin"
    /\ loopPc' = "select"
    /\ UNCHANGED <<ctxDone, currentTask, tickPending, crashed, gs, abandoned, ingestVars, batchVars, sigVars>>

\* start.go:166-167: the loop sees ctx.Done() and start() returns.
LoopDone ==
    /\ Alive
    /\ loopPc = "select"
    /\ ctxDone
    /\ loopPc' = "exited"
    /\ tickPending' = FALSE
    /\ UNCHANGED <<ctxDone, currentTask, crashed, gs, abandoned, ingestVars, batchVars, sigVars>>

\* start.go:65-67, 79: start() has returned; gracefulShutdown(stop) is handed
\* the cancel function only and start() keeps no handle on its goroutines,
\* so startCmdImpl returns, and the process ends, wherever they are.
ProcessExit ==
    /\ ~crashed
    /\ loopPc = "exited"
    /\ loopPc' = "gone"
    /\ UNCHANGED <<ctxDone, currentTask, tickPending, crashed, gs, abandoned, ingestVars, batchVars, sigVars>>

\* start.go:114-133, for every list getAvailableTasks can return and every
\* time.Now(): the sorted slice of executable tasks is empty (first = nil),
\* or first is its element 0.  minDue records, for the properties, the ids of
\* the due tasks of least execution time in the list.
Selection(availableTasks, now) ==
    {[first |-> IF Len(executableTasks) = 0 THEN nil ELSE executableTasks[1],
      minDue |-> MinDueIds(availableTasks, now)] :
        executableTasks \in SortSlice(Executable(availableTasks, now))}

Selections ==
    UNION {UNION {Selection(availableTasks, now) : now \in Times} :
               availableTasks \in AvailLists}

\* start.go:110-133: getAvailableTasks returns; on a list, filter it, sort it
\* and, when a task is left, write currentTask.
Fetch(g) ==
    /\ Alive
    /\ gs[g].pc = "fetch"
    /\ \E ok \in CallOutcomes(ctxDone), sel \in Selections :
            IF ~ok \/ sel.first = nil
            THEN /\ gs' = [gs EXCEPT ![g] = NoGoroutine]
                 /\ UNCHANGED currentTask
            ELSE /\ currentTask' = sel.first
                 /\ gs' = [gs EXCEPT ![g].pc = "start", ![g].eligible = sel.minDue]
    /\ UNCHANGED <<ctxDone, loopPc, tickPending, crashed, abandoned, ingestVars, batchVars, sigVars>>

\* start.go:134: read currentTask.Id (a panic on nil) and call startTask.
StartCall(g) ==
    /\ Alive
    /\ gs[g].pc = "start"
    /\ IF currentTask = nil
       THEN crashed' = TRUE /\ UNCHANGED gs
       ELSE /\ gs' = [gs EXCEPT ![g].pc = "starting", ![g].sent = currentTask.Id,
                               ![g].eligible = {}]
            /\ UNCHANGED crashed
    /\ UNCHANGED <<ctxDone, currentTask, loopPc, tickPending, abandoned, ingestVars, batchVars, sigVars>>

\* start.go:134-138: startTask returns; on an error currentTask = nil, return.
StartReturn(g) ==
    /\ Alive
    /\ gs[g].pc = "starting"
    /\ \E ok \in CallOutcomes(ctxDone) :
        IF ok
        THEN /\ gs' = [gs EXCEPT ![g].pc = "ingest", ![g].sent = 0]
             /\ UNCHANGED <<currentTask, abandoned>>
        ELSE /\ currentTask' = nil
             /\ gs' = [gs EXCEPT ![g] = NoGoroutine]
             /\ abandoned' = TRUE
    /\ UNCHANGED <<ctxDone, loopPc, tickPending, crashed, ingestVars, batchVars, sigVars>>

\* start.go:140-145: listAll, pipeline.Batch and ingest, to ingest's return.
IngestCall(g) ==
    /\ Alive
    /\ gs[g].pc = "ingest"
    /\ \E hasIngestErr \in IngestResults[ctxDone] :
        gs' = [gs EXCEPT ![g].pc = "end", ![g].hasIngestErr = hasIngestErr]
    /\ UNCHANGED <<ctxDone, currentTask, loopPc, tickPending, crashed, abandoned, ingestVars, batchVars, sigVars>>

\* start.go:148-155: the message, and the call of endTask.
EndCall(g) ==
    /\ Alive
    /\ gs[g].pc = "end"
    /\ gs' = [gs EXCEPT ![g].pc = "ending",
                        ![g].endReq = EndRequest(gs[g].hasIngestErr)]
    /\ UNCHANGED <<ctxDone, currentTask, loopPc, tickPending, crashed, abandoned, ingestVars, batchVars, sigVars>>

\* start.go:155-159: endTask returns; an error is logged, a success goes on
\* to the log line that reads currentTask.Id.
EndReturn(g) ==
    /\ Alive
    /\ gs[g].pc = "ending"
    /\ \E ok \in CallOutcomes(ctxDone) :
        gs' = [gs EXCEPT ![g] = [NoGoroutine EXCEPT
                                    !.pc = IF ok THEN "logdone" ELSE "clear"]]
    /\ UNCHANGED <<ctxDone, currentTask, loopPc, tickPending, crashed, abandoned, ingestVars, batchVars, sigVars>>

\* start.go:158: read currentTask.Id (a panic on nil).
LogDone(g) ==
    /\ Alive
    /\ gs[g].pc = "logdone"
    /\ IF currentTask = nil
       THEN crashed' = TRUE /\ UNCHANGED gs
       ELSE gs' = [gs EXCEPT ![g].pc = "clear"] /\ UNCHANGED crashed
    /\ UNCHANGED <<ctxDone, currentTask, loopPc, tickPending, abandoned, ingestVars, batchVars, sigVars>>

\* start.go:161: currentTask = nil, and the goroutine ends.
Clear(g) ==
    /\ Alive
    /\ gs[g].pc = "clear"
    /\ currentTask' = nil
    /\ gs' = [gs EXCEPT ![g] = NoGoroutine]
    /\ UNCHANGED <<ctxDone, loopPc, tickPending, crashed, abandoned, ingestVars, batchVars, sigVars>>

Next ==
    \/ Cancel
    \/ Tick
    \/ LoopTickIdle
    \/ LoopTickBusy
    \/ LoopCheckin
    \/ LoopCheckinReturn
    \/ LoopDone
    \/ ProcessExit
    \/ \E g \in Goroutines :
        \/ Fetch(g)
        \/ StartCall(g)
        \/ StartReturn(g)
        \/ IngestCall(g)
        \/ EndCall(g)
        \/ EndReturn(g)
        \/ LogDone(g)
        \/ Clear(g)

Spec == InitSched /\ [][Next]_vars

\* The goroutines between a successful startTask and their currentTask = nil.
Running == {g \in Goroutines : gs[g].pc \in {"ingest", "end", "ending", "logdone", "clear"}}

(***************************************************************************)
(* SpecSignals: start() with diagnostic signals sent to the process.       *)
(*                                                                         *)
(* start.go:71-78 makes sigChan and starts a goroutine that prints the     *)
(* stacks for every value it receives from it.  sigChan is local to        *)
(* start() and is handed to no signal.Notify and to no sender: the range   *)
(* of line 74 never receives, and no step of the program writes dumps.     *)
(***************************************************************************)

\* A diagnostic signal reaches the process.  signal.NotifyContext (70) is
\* registered for os.Interrupt and os.Kill only, so ctx is left alone;
\* nothing is sent on sigChan.
DiagSignal ==
    /\ Alive
    /\ sigDelivered < MaxSignals
    /\ sigDelivered' = sigDelivered + 1
    /\ UNCHANGED <<ctxDone, schedVars, ingestVars, batchVars, dumps>>

NextSignals == Next \/ DiagSignal

SpecSignals == InitSched /\ [][NextSignals]_vars

(***************************************************************************)
(* SpecBatch: the batching stage of start.go:142-145.                      *)
(*                                                                         *)
(* pipeline.Batch accumulates the records of the stream in a buffer and    *)
(* emits the buffer as a batch when it holds the maximum count, when the   *)
(* time window has elapsed since it became non-empty, and, if non-empty,   *)
(* when the stream ends; on cancellation it stops and drops the buffer.    *)
(*                                                                         *)
(* The state of the stage is a record:                                     *)
(*   pc          "open", "closed" (stream ended), "cancelled"              *)
(*   buf         the buffer                                                *)
(*   out         the batches emitted, in order                             *)
(*   produced    records the producer has emitted: records are 1, 2, ...   *)
(*   bursts      bursts the producer has emitted                           *)
(*   timeFlushes batches emitted because the window elapsed                *)
(* The producer emits its records in bursts; the window does not elapse    *)
(* inside a burst.                                                         *)
(***************************************************************************)

\* The records after record a up to record b, in the order of emission.
Records(a, b) == [i \in 1..(b - a) |-> a + i]

\* The buffer is emitted as a batch, if it holds a record.
Flush(s) ==
    IF s.buf = <<>> THEN s
    ELSE [s EXCEPT !.out = Append(@, s.buf), !.buf = <<>>]

\* A record arrives: it is buffered, and a buffer of max records is emitted.
Put(s, r, max) ==
    LET t == [s EXCEPT !.buf = Append(@, r)]
    IN  IF Len(t.buf) >= max THEN Flush(t) ELSE t

\* start.go:144 with another maximum count handed to pipeline.Batch.
BatchPutDoubled(s, r) == Put(s, r, 2 * maxItems)

\* start.go:144: pipeline.Batch is handed the maximum count 256.
BatchPut(s, r) == Put(s, r, maxItems)

\* The records recs[lo], ..., recs[hi] arrive one after the other (the
\* first half of them, then, the stage being still open, the second half).
RECURSIVE PutAll(_, _, _, _)
PutAll(s, recs, lo, hi) ==
    IF lo > hi THEN s
    ELSE IF lo = hi THEN BatchPut(s, recs[lo])
    ELSE LET mid == (lo + hi) \div 2
             first == PutAll(s, recs, lo, mid)
         IN  IF first.pc = "open" THEN PutAll(first, recs, mid + 1, hi) ELSE first

\* The sizes of the bursts of the producer.
BurstSizes == {1, maxItems - 1, maxItems, maxItems + 1, MaxBurst}

\* The concatenation of batches, in order.
RECURSIVE Flatten(_)
Flatten(batches) ==
    IF batches = <<>> THEN <<>> ELSE Head(batches) \o Flatten(Tail(batches))

InitBatch ==
    /\ ctxDone = FALSE
    /\ bt = BatchStart
    /\ currentTask = nil
    /\ loopPc = "select"
    /\ tickPending = FALSE
    /\ crashed = FALSE
    /\ gs = [g \in Goroutines |-> NoGoroutine]
    /\ abandoned = FALSE
    /\ ig = IngestStart(0)
    /\ log = <<>>
    /\ prior = [exhausted |-> FALSE, accepted |-> TRUE]
    /\ aborted = FALSE
    /\ cancelledAt = 0
    /\ sigDelivered = 0
    /\ dumps = 0

\* start.go:142-144: the stream of listAll delivers a burst of records.
BatchProduce ==
    /\ bt.pc = "open"
    /\ bt.bursts < MaxBursts
    /\ \E n \in BurstSizes :
        bt' = [PutAll(bt, Records(bt.produced, bt.produced + n), 1, n) EXCEPT
                  !.produced = @ + n, !.bursts = @ + 1]
    /\ UNCHANGED <<ctxDone, schedVars, ingestVars, sigVars>>

\* The window has elapsed since the buffer became non-empty.
BatchWindow ==
    /\ bt.pc = "open"
    /\ bt.buf # <<>>
    /\ bt' = [Flush(bt) EXCEPT !.timeFlushes = @ + 1]
    /\ UNCHANGED <<ctxDone, schedVars, ingestVars, sigVars>>

\* The stream ends: the rest of the buffer is emitted and the output closed.
BatchExhausted ==
    /\ bt.pc = "open"
    /\ bt' = [Flush(bt) EXCEPT !.pc = "closed"]
    /\ UNCHANGED <<ctxDone, schedVars, ingestVars, sigVars>>

\* ctx is cancelled: the stage stops and drops its buffer.
BatchCancel ==
    /\ bt.pc = "open"
    /\ ~ctxDone
    /\ ctxDone' = TRUE
    /\ bt' = [bt EXCEPT !.pc = "cancelled", !.buf = <<>>]
    /\ UNCHANGED <<schedVars, ingestVars, sigVars>>

NextBatch ==
    \/ BatchProduce
    \/ BatchWindow
    \/ BatchExhausted
    \/ BatchCancel

SpecBatch == InitBatch /\ [][NextBatch]_vars

(***************************************************************************)
(* Properties of start(), checked under Spec.                              *)
(***************************************************************************)

\* C1: at most one goroutine is between a successful startTask and its final
\* currentTask = nil.
C1_SingleJob == Cardinality(Running) <= 1

\* C2: while a goroutine's startTask has succeeded and its endTask has not
\* been sent, no goroutine calls startTask.
C2_NoSecondStart ==
    [][\A h \in Goroutines :
          (gs[h].pc = "start" /\ gs'[h].pc = "starting") =>
              ~\E g \in Goroutines : gs[g].pc \in {"ingest", "end"}]_vars

\* C3: the id a goroutine hands to startTask is that of a task of least
\* execution time among the tasks of its fetched list whose execution time is
\* <= now; with no such task it does not call startTask and marks no task.
C3_MinDueStarted ==
    /\ [](\A g \in Goroutines : gs[g].pc = "start" => gs[g].eligible # {})
    /\ [][\A g \in Goroutines :
             (gs[g].pc = "start" /\ gs'[g].pc = "starting") =>
                 gs'[g].sent \in gs[g].eligible]_vars

\* C6: the status endTask reports is Completed when ingest() returned false,
\* and another status, CompletedWithErrors, with a message, when it returned
\* true.
C6_StatusByOutcome ==
    \A g \in Goroutines :
        gs[g].pc = "ending" =>
            /\ ~gs[g].hasIngestErr => gs[g].endReq.Status = JobStatusComplete
            /\ gs[g].hasIngestErr =>
                   (gs[g].endReq.Status # JobStatusComplete /\ gs[g].endReq.Message # "")

\* C6 as amended: endTask always reports the status Complete; the message is
\* "Collection completed successfully" when ingest() returned false and
\* "Collection completed with errors during ingest" when it returned true.
C6_MessageByOutcome ==
    \A g \in Goroutines :
        gs[g].pc = "ending" =>
            /\ gs[g].endReq.Status = JobStatusComplete
            /\ gs[g].endReq.Message =
                   IF gs[g].hasIngestErr
                   THEN "Collection completed with errors during ingest"
                   ELSE "Collection completed successfully"

\* C6 witness: endTask is in flight for a job whose ingest() returned true.
C6_Witness ==
    \E g \in Goroutines : gs[g].pc = "ending" /\ gs[g].hasIngestErr

\* C11: after a job's execution ends, whatever ingest() returned and whether
\* endTask succeeds or fails, the goroutine goes on to currentTask = nil and
\* a later tick dispatches selection: with the context not cancelled, the
\* process never ends while a goroutine that has called endTask has still to
\* release the slot.
C11_SlotReleased ==
    ~(/\ crashed
      /\ ~ctxDone
      /\ \E g \in Goroutines : gs[g].pc \in {"ending", "logdone", "clear"})

\* C12: when the context is cancelled while a task is held (its startTask has
\* succeeded), endTask is called for it before the process exits: the
\* process has never exited with a goroutine still before its endTask call.
C12_EndReportBeforeExit ==
    loopPc = "gone" => \A g \in Goroutines : gs[g].pc \notin {"ingest", "end"}

\* C13: a tick the loop takes while a job is running (startTask has
\* succeeded, endTask has not been called) goes on to the heartbeat and
\* starts no goroutine; a tick it takes while no goroutine has selected a
\* task starts a goroutine and sends no heartbeat.
C13_TickByJobState ==
    [][LET tickTaken == /\ loopPc = "select" /\ tickPending /\ ~tickPending'
                        /\ loopPc' # "exited"
           dispatched == \E g \in Goroutines :
                             gs[g].pc = "none" /\ gs'[g].pc = "fetch"
           jobRunning == \E g \in Goroutines : gs[g].pc \in {"ingest", "end"}
           noJob == \A g \in Goroutines : gs[g].pc \in {"none", "fetch"}
       IN  tickTaken =>
               /\ jobRunning => (loopPc' = "log" /\ ~dispatched)
               /\ noJob => (dispatched /\ loopPc' = "select")]_vars

\* C14: the loop is never itself waiting for a round trip: whatever call is
\* in flight (getAvailableTasks, startTask, checkin, endTask, ingest), the
\* loop is not inside it and can take the next tick and ctx.Done().
C14_LoopNeverInCall ==
    LET inFlight == \/ loopPc = "checkin"
                    \/ \E g \in Goroutines :
                           gs[g].pc \in {"fetch", "starting", "ingest", "ending"}
    IN  inFlight => loopPc # "checkin"

\* C17: when startTask fails, selection is abandoned and is dispatched again
\* on a later tick: with the context not cancelled, the process never ends
\* after a failed startTask before the loop has started a goroutine again.
C17_RedispatchAfterFailedStart == ~(crashed /\ abandoned /\ ~ctxDone)

\* C18: currentTask is non-nil only for a task whose startTask has returned
\* successfully, and a heartbeat is in flight only then: in every state
\* with currentTask set or checkin in flight, some goroutine is between its
\* successful startTask and its currentTask = nil.
C18_MarkedOnlyAfterStart ==
    (currentTask # nil \/ loopPc = "checkin") => Running # {}

\* C19: no read of currentTask.Id (lines 103, 134, 158) finds currentTask
\* nil: the process never panics.
C19_NoNilDeref == ~crashed

\* C20: every job whose startTask succeeded gets its endTask call, after
\* its ingest: with the context not cancelled, the process never ends while
\* a goroutine whose startTask succeeded has still to call endTask.
C20_StartedJobEnded ==
    ~(/\ crashed
      /\ ~ctxDone
      /\ \E g \in Goroutines : gs[g].pc \in {"ingest", "end"})

(***************************************************************************)
(* Properties of the signal handling, checked under SpecSignals.           *)
(***************************************************************************)

\* C15: every diagnostic signal delivered to the process has its dump of
\* the stacks on standard output, and does not cancel the context.
C15_DumpPerSignal ==
    /\ [](dumps = sigDelivered)
    /\ [][sigDelivered' # sigDelivered => ctxDone' = ctxDone]_vars

(***************************************************************************)
(* Properties of the batching stage, checked under SpecBatch.              *)
(***************************************************************************)

\* C16: with no cancellation, every batch emitted holds at least one and at
\* most 256 records; the batches emitted, concatenated in the order of
\* emission and followed by the buffer, are the records produced, in order,
\* each once; when the stream has ended the buffer is empty; 600 records
\* with no flush by the window end as batches of 256, 256 and 88 records.
C16_BatchesPartitionStream ==
    bt.pc # "cancelled" =>
        /\ \A i \in 1..Len(bt.out) : Len(bt.out[i]) \in 1..256
        /\ Flatten(bt.out) \o bt.buf = Records(0, bt.produced)
        /\ bt.pc = "closed" => bt.buf = <<>>
        /\ (bt.pc = "closed" /\ bt.timeFlushes = 0 /\ bt.produced = 600) =>
               [i \in 1..Len(bt.out) |-> Len(bt.out[i])] = <<256, 256, 88>>

\* C16 witness: 600 records were produced, the window never elapsed, the
\* stream has ended and three batches were emitted.
C16_Witness ==
    /\ bt.pc = "closed" /\ bt.timeFlushes = 0 /\ bt.produced = 600
    /\ Len(bt.out) = 3

(***************************************************************************)
(* Properties of ingest(), checked under SpecIngest.                       *)
(***************************************************************************)

\* C4: once a POST of a batch is answered 202, that batch is not POSTed
\* again: no POST follows an accepted POST among the events of one batch.
C4_AcceptedNotResent ==
    \A i \in 1..Len(log) : \A j \in 1..Len(log) :
        (i < j /\ IsAcceptedPost(log[i])) => ~IsPost(log[j])

\* C5: when ingest() has returned, it returned true if and only if an
\* unrecoverable abort occurred (NewRequest failed, Do failed, or a status
\* other than 202/503/504 came back) or the last allowed attempt of some
\* batch was answered 503/504; and if it returned false, every batch it
\* received was accepted.  Cancellation of the context is part of the runs.
C5_ErrorFlag ==
    ig.pc = "ret" =>
        /\ ig.ret <=> (aborted \/ AnyExhausted)
        /\ ~ig.ret => AllAccepted

\* C5 witness: ingest() returned true with no abort, because a batch used up
\* its attempts, and the context was cancelled with batches left unread.
C5_Witness ==
    /\ ig.pc = "ret" /\ ig.ret /\ ~aborted /\ AnyExhausted
    /\ ctxDone /\ ig.left > 0

\* C7: for a batch whose three attempts are all answered 503, the events are
\* attempt, sleep 5 s, attempt, sleep 25 s, attempt, then the job is marked
\* degraded; no sleep follows the third attempt.
C7_BackoffOrder ==
    LET p503 == [e |-> "post", err |-> FALSE, v |-> StatusServiceUnavailable]
        upto3 == <<p503, SleepEvent(5), p503, SleepEvent(25), p503>>
    IN  Posts(log) = <<p503, p503, p503>> =>
            log \in {upto3, upto3 \o <<DegradedEvent>>}

\* C8: a batch is POSTed at most maxRetries times; when all its attempts were
\* answered 503/504 (and the last sleep is over) hasErrors is set and ingest()
\* is back at the range for the next batch: it has returned only if the
\* channel was closed, and then with hasErrors.
C8_ExhaustedContinues ==
    /\ Len(Posts(log)) <= maxRetries
    /\ (LogAllTransient(log) /\ ig.pc # "sleep") =>
            /\ ig.hasErrors
            /\ \/ ig.pc = "range"
               \/ ig.pc = "ret" /\ ig.ret /\ OrDoneClosed(ig.left, ctxDone)
    /\ prior.exhausted => ig.hasErrors

\* C8 witness: a batch used up its three attempts on 503/504 and ingest() is
\* at the range with a batch still to come and the context not cancelled.
C8_Witness ==
    /\ LogAllTransient(log) /\ ig.pc = "range" /\ ig.hasErrors
    /\ ig.left > 0 /\ ~ctxDone

\* C9: a transport failure or a status that is none of 202, 503, 504 is the
\* last POST of the job: nothing is recorded after it, and ingest() has
\* returned true.
C9_AbortStopsJob ==
    \A i \in 1..Len(log) :
        IsAbortPost(log[i]) => (i = Len(log) /\ ig.pc = "ret" /\ ig.ret)

\* C9 witness: the first attempt of a batch was answered with an unexpected
\* status and ingest() returned with retries and batches left.
C9_Witness ==
    /\ Len(log) = 1 /\ IsAbortPost(log[1]) /\ ~log[1].err
    /\ ig.pc = "ret" /\ ig.left > 0

\* C10: a backoff sleep during which the context is cancelled (with time
\* left on its timer) is aborted: ingest() is never still in that sleep when
\* the timer has run out.
C10_SleepAborted ==
    (ctxDone /\ cancelledAt > 0 /\ ig.pc = "sleep") => ig.sleepLeft > 0

=============================================================================
